---- MODULE Spec2Model ----
(***************************************************************************)
(* The four real-time detection scripts of the repository (COCO/YOLO.py,   *)
(* COCO/box_estimation.py, COCO/live.py, notebooks/live-detect-TFlite.py)  *)
(* as one state machine: start-up, capture, the per-frame pipeline and     *)
(* shutdown.                                                               *)
(*                                                                         *)
(* Numbers.  Every entry of a detector tensor (box coordinate or class     *)
(* score) is an integer number of hundredths: 51 is 0.51, 12000 is 120.0.  *)
(* Pixel coordinates after int() are plain integers.  Quotients that the   *)
(* code leaves as floats (distances) are kept as exact fractions           *)
(* [num, den].                                                             *)
(***************************************************************************)
EXTENDS Integers, Sequences, FiniteSets, TLC

(***************************************************************************)
(* Bounds of the model.                                                    *)
(***************************************************************************)
MaxFrames == 2      \* frame reads attempted in one run
MaxAnchors == 2     \* anchors of a freely composed detector output
BoxRange == 3       \* corner coordinates -BoxRange..BoxRange, sizes 0..2*BoxRange
MaxLines == 2       \* lines of a source label file of merge.py

(***************************************************************************)
(* Program constants.                                                      *)
(***************************************************************************)
FOCAL_LENGTH == 700          \* box_estimation.py:50
DEFAULT_HEIGHT == 50         \* box_estimation.py:46
max_wh == 7680               \* box_estimation.py:136
num_train == 350             \* unzip.py:63
num_val == 150               \* unzip.py:64
DEPTH_SCALE == 1000          \* live-detect-TFlite.py:87
NORMALIZED_MAX == 200        \* 2.0, live.py:92, box_estimation.py:113

\* The label table, cut to its first two entries; the scripts' tables hold 80
\* (YOLO.py:10-20 a list, live.py:9-27 and box_estimation.py:8-26 dicts 0..79).
CLASSES == <<"person", "bicycle">>

\* The row count the scripts read as "attributes first": 84 = 4 + 80 in the
\* source, 4 + Len(CLASSES) here.
ATTR_ROWS == 4 + Len(CLASSES)

\* box_estimation.py:30-45, for the labels of the cut table
KNOWN_HEIGHTS == [l \in {"person", "bicycle"} |-> IF l = "person" THEN 170 ELSE 105]

Variants == {"YOLO", "box_estimation", "live", "TFlite"}
TensorVariants == {"YOLO", "box_estimation", "live"}

\* confidence threshold of each script, in hundredths
ScoreThreshold(v) == IF v = "YOLO" THEN 50 ELSE 40
\* IoU threshold handed to NMSBoxes, in hundredths
NmsThreshold(v) == IF v = "live" THEN 40 ELSE 45

\* frame.shape[:2] of the camera: (height, width)
FrameShape == <<480, 640>>
\* input_details[0]['shape'][1:3] of the detection model: (height, width)
YoloInShape == <<640, 640>>

(***************************************************************************)
(* Arithmetic helpers.                                                     *)
(***************************************************************************)
\* Python int(n / d) for d > 0: truncation toward zero
Trunc(n, d) == IF n >= 0 THEN n \div d ELSE -((-n) \div d)

Max2(a, b) == IF a >= b THEN a ELSE b
Min2(a, b) == IF a <= b THEN a ELSE b
Abs(a) == IF a >= 0 THEN a ELSE -a

RECURSIVE SeqMax(_)
SeqMax(s) == IF Len(s) = 1 THEN s[1] ELSE Max2(s[1], SeqMax(Tail(s)))

\* np.argmax: index (from 0) of the first maximum
ArgMax(s) == (CHOOSE i \in 1..Len(s) :
                 /\ s[i] = SeqMax(s)
                 /\ \A j \in 1..(i-1) : s[j] < s[i]) - 1

\* s[lo:hi] of Python, on a tuple (lo, hi counted from 0, hi exclusive)
Slice(s, lo, hi) == [i \in 1..Max2(0, Min2(hi, Len(s)) - lo) |-> s[lo + i]]

\* out.transpose(1, 0) on a matrix given as a tuple of rows
Transpose(m) ==
    IF Len(m) = 0 THEN <<>>
    ELSE [c \in 1..Len(m[1]) |-> [r \in 1..Len(m) |-> m[r][c]]]

(***************************************************************************)
(* Detector outputs the model feeds to the scripts.                        *)
(*                                                                         *)
(* An anchor is <<cx, cy, w, h, s0, s1, s2>> in hundredths; a model with   *)
(* nc classes emits the first 4 + nc of them.  Boxes are absolute pixels   *)
(* of the 640 x 640 model input unless noted.                              *)
(***************************************************************************)
AnchorPool == {
    <<12000, 12000, 4000, 8000,   90, 10,  5>>,   \* box A, class 0
    <<12400, 12000, 4000, 8000,   80, 10,  5>>,   \* A moved 4 px, class 0
    <<12000, 12000, 4000, 8000,   10, 70,  5>>,   \* box A, class 1
    <<13600, 12000, 4000, 8000,   60, 10,  5>>,   \* A moved 16 px, class 0
    <<70000, 40000, 5000, 6000,   51, 50,  5>>,   \* far box, centre right of
                                                  \* the frame, max score 0.51
    <<40000, 20000, 5000,   50,   50, 49,  5>>,   \* height 0.5 px, max 0.50
    <<20000, 40000, 3000, 3000,   49, 39,  5>>,   \* max score 0.49
    <<30000, 30000, 2000, -800,   41, 41,  5>>,   \* negative height, tie
    <<   50,    50,   20,   20,   85,  0,  0>>,   \* normalized box
    <<50000, 10000, 2000, 2000,   10, 40, 95>>,   \* third class strongest
    << 1000,  1000, 4500, 2500,   75,  5,  5>>    \* odd width, corner < 0
}

\* the anchors of the outputs that have as many anchors as attribute rows
LongPool == {
    <<12000, 12000, 4000, 8000,   90, 10,  5>>,
    <<12000, 12000, 4000, 8000,   10, 70,  5>>
}

RECURSIVE SeqsOver(_, _)
\* all tuples of length n over the set S
SeqsOver(S, n) ==
    IF n = 0 THEN {<<>>}
    ELSE {Append(s, x) : s \in SeqsOver(S, n - 1), x \in S}

AnchorLists ==
    UNION {SeqsOver(AnchorPool, n) : n \in 1..MaxAnchors}
      \cup SeqsOver(LongPool, ATTR_ROWS)

\* The detection model artifact: the layout of its output tensor and the
\* number of classes it scores.  The stock export is (84, 8400); a model
\* trained on one class more is taken in (anchors, attributes) layout.
ModelKinds == {
    [layout |-> "attr_major",   nc |-> Len(CLASSES)],
    [layout |-> "anchor_major", nc |-> Len(CLASSES)],
    [layout |-> "anchor_major", nc |-> Len(CLASSES) + 1]
}

\* the (anchors, attributes) matrix of a list of anchors for a model of nc classes
AnchorMatrix(anchors, nc) == [i \in 1..Len(anchors) |-> Slice(anchors[i], 0, 4 + nc)]

\* yolo_output[0]: the tensor the interpreter returns for these anchors
RawOutput(anchors, kind) ==
    IF kind.layout = "attr_major"
    THEN Transpose(AnchorMatrix(anchors, kind.nc))
    ELSE AnchorMatrix(anchors, kind.nc)

(***************************************************************************)
(* Detection postprocessor (YOLO.py:73-109, box_estimation.py:97-140,      *)
(* live.py:76-115).                                                        *)
(***************************************************************************)
\* if out.shape[0] == 84: the branch taken
IsTransposed(raw) == Len(raw) = ATTR_ROWS

\* out after the layout step
Layout(raw) == IF IsTransposed(raw) THEN Transpose(raw) ELSE raw

\* boxes = out[:, :4]; scores = out[:, 4:]
BoxOf(row) == Slice(row, 0, 4)
ScoresOf(row) == Slice(row, 4, Len(row))

\* the mask with >= in place of >
Keeps_AtLeast(conf, thr) == conf >= thr

\* confidences > threshold
Keeps(conf, thr) == conf > thr

\* the mask left out: every row is kept
ValidIndices_All(out, thr) == [i \in 1..Len(out) |-> i]

\* indices (from 1) of the rows of out that the mask keeps, in order
ValidIndices(out, thr) ==
    SelectSeq([i \in 1..Len(out) |-> i],
              LAMBDA i : Keeps(SeqMax(ScoresOf(out[i])), thr))

\* boxes[mask], class_ids[mask], confidences[mask]
Masked(out, thr) ==
    LET vi == ValidIndices(out, thr)
    IN  [k \in 1..Len(vi) |->
            [box      |-> BoxOf(out[vi[k]]),
             class_id |-> ArgMax(ScoresOf(out[vi[k]])),
             conf     |-> SeqMax(ScoresOf(out[vi[k]]))]]

\* is_normalized = np.max(boxes) <= 2.0 if len(boxes) > 0 else False
IsNormalized(cands) ==
    IF Len(cands) > 0
    THEN \A k \in 1..Len(cands) : \A c \in 1..4 : cands[k].box[c] <= NORMALIZED_MAX
    ELSE FALSE

\* [x_min, y_min, int(w), int(h)] of one raw box; fn / fd is the factor of
\* the width, gn / gd of the height
ToCv2Box(box, fn, fd, gn, gd) ==
    << Trunc((2 * box[1] - box[3]) * fn, 200 * fd),
       Trunc((2 * box[2] - box[4]) * gn, 200 * gd),
       Trunc(box[3] * fn, 100 * fd),
       Trunc(box[4] * gn, 100 * gd) >>

\* the scale the script applies to a frame's boxes
UsesNormalized(v, cands) == IF v = "YOLO" THEN FALSE ELSE IsNormalized(cands)

\* cv2_boxes (box_results in YOLO.py)
Cv2Boxes(v, cands) ==
    LET norm == UsesNormalized(v, cands)
        fd == IF norm THEN 1 ELSE YoloInShape[2]
        gd == IF norm THEN 1 ELSE YoloInShape[1]
    IN  [k \in 1..Len(cands) |->
            ToCv2Box(cands[k].box, FrameShape[2], fd, FrameShape[1], gd)]

(***************************************************************************)
(* cv2.dnn.NMSBoxes as the scripts call it (YOLO.py:109,                   *)
(* box_estimation.py:140, live.py:115): candidates whose score exceeds the *)
(* score threshold, taken by descending score (stable), each kept unless   *)
(* its overlap with a box already kept exceeds the NMS threshold.  Boxes   *)
(* are <<x, y, w, h>>; indices count from 1 here.                          *)
(***************************************************************************)
RectArea(b) == b[3] * b[4]
RectEmpty(b) == b[3] <= 0 \/ b[4] <= 0

\* area of the intersection a & b
InterArea(a, b) ==
    LET x1 == Max2(a[1], b[1])
        y1 == Max2(a[2], b[2])
        w  == Min2(a[1] + a[3], b[1] + b[3]) - x1
        h  == Min2(a[2] + a[4], b[2] + b[4]) - y1
    IN  IF RectEmpty(a) \/ RectEmpty(b) \/ w <= 0 \/ h <= 0 THEN 0 ELSE w * h

\* 1 - jaccardDistance(a, b) > thr / 100; two boxes without area are at
\* Jaccard distance 0
OverlapExceeds(a, b, thr) ==
    LET Aa == RectArea(a)
        Ab == RectArea(b)
        I  == InterArea(a, b)
    IN  IF Aa + Ab <= 0 THEN TRUE
        ELSE 100 * I > thr * (Aa + Ab - I)

RECURSIVE OrderByScore(_, _)
\* the indices in S by descending score, earlier index first among equals
OrderByScore(S, scores) ==
    IF S = {} THEN <<>>
    ELSE LET i == CHOOSE i \in S : \A j \in S :
                      \/ scores[i] > scores[j]
                      \/ (scores[i] = scores[j] /\ i <= j)
         IN  <<i>> \o OrderByScore(S \ {i}, scores)

RECURSIVE Greedy(_, _, _, _)
Greedy(order, kept, bboxes, nms_thr) ==
    IF order = <<>> THEN kept
    ELSE LET i == Head(order)
             keep == \A k \in 1..Len(kept) :
                        ~OverlapExceeds(bboxes[i], bboxes[kept[k]], nms_thr)
         IN  Greedy(Tail(order), IF keep THEN Append(kept, i) ELSE kept,
                    bboxes, nms_thr)

NMSBoxes(bboxes, scores, score_thr, nms_thr) ==
    Greedy(OrderByScore({i \in 1..Len(bboxes) : scores[i] > score_thr}, scores),
           <<>>, bboxes, nms_thr)

\* the offset a class moves its boxes by before the pass
ClassOffset(v, class_id) == IF v = "box_estimation" THEN class_id * max_wh ELSE 0

\* the boxes handed to NMSBoxes: nms_boxes in box_estimation.py, the frame
\* boxes themselves in YOLO.py and live.py
NmsInput(v, boxes, cands) ==
    [j \in 1..Len(boxes) |->
        << boxes[j][1] + ClassOffset(v, cands[j].class_id),
           boxes[j][2] + ClassOffset(v, cands[j].class_id),
           boxes[j][3], boxes[j][4] >>]

\* indices = cv2.dnn.NMSBoxes(...)
NmsIndices(v, boxes, cands) ==
    NMSBoxes(NmsInput(v, boxes, cands),
             [j \in 1..Len(cands) |-> cands[j].conf],
             ScoreThreshold(v), NmsThreshold(v))

(***************************************************************************)
(* Labels and distances.                                                   *)
(***************************************************************************)
\* label = CLASSES[cls_id] (YOLO.py, a list) or CLASSES.get(class_id,
\* "Unknown") (box_estimation.py, live.py); "IndexError" stands for the
\* exception the list raises
LabelOf(v, class_id) ==
    IF class_id \in 0..(Len(CLASSES) - 1) THEN CLASSES[class_id + 1]
    ELSE IF v = "YOLO"
         THEN (IF -class_id \in 1..Len(CLASSES)
               THEN CLASSES[Len(CLASSES) + class_id + 1]
               ELSE "IndexError")
         ELSE "Unknown"

\* a / b of Python on numbers: the fraction, den = 0 for ZeroDivisionError;
\* divs counts the divisions performed
Quot(a, b) == [num |-> a, den |-> b, divs |-> 1]
\* a number that was not computed by a division
Plain(a) == [num |-> a, den |-> 1, divs |-> 0]

\* the guard with < in place of <=
estimate_distance_Lt(known_height, apparent_height_pixels) ==
    IF apparent_height_pixels < 0 THEN Plain(0)
    ELSE Quot(known_height * FOCAL_LENGTH, apparent_height_pixels)

estimate_distance(known_height, apparent_height_pixels) ==
    IF apparent_height_pixels <= 0 THEN Plain(0)
    ELSE Quot(known_height * FOCAL_LENGTH, apparent_height_pixels)

\* KNOWN_HEIGHTS.get(label, DEFAULT_HEIGHT)
KnownHeight(label) ==
    IF label \in DOMAIN KNOWN_HEIGHTS THEN KNOWN_HEIGHTS[label] ELSE DEFAULT_HEIGHT

(***************************************************************************)
(* Depth maps.  A map is given by one marked pixel hot = <<row, col>> with *)
(* value v and the value bg of every other pixel; the frame has more than  *)
(* one pixel, so both values occur.                                        *)
(***************************************************************************)
DepthMaps == {
    [hot |-> <<90, 120>>,  v |-> 10, bg |-> 0],
    [hot |-> <<90, 120>>,  v |-> 0,  bg |-> 1],
    [hot |-> <<90, 120>>,  v |-> -5, bg |-> 4],
    [hot |-> <<479, 639>>, v |-> 8,  bg |-> 0]
}
\* the maps offered to live.py
LiveDepthMaps == {dm \in DepthMaps : dm.v > 0}
NoDepth == [hot |-> <<0, 0>>, v |-> 0, bg |-> 0]

\* a[r, c] of a NumPy array of FrameShape: ok = FALSE stands for IndexError,
\* a negative index counts from the end
ArrayRead(dm, r, c) ==
    LET H == FrameShape[1]
        W == FrameShape[2]
        rr == IF r < 0 THEN r + H ELSE r
        cc == IF c < 0 THEN c + W ELSE c
    IN  IF rr \in 0..(H - 1) /\ cc \in 0..(W - 1)
        THEN [ok |-> TRUE, val |-> IF <<rr, cc>> = dm.hot THEN dm.v ELSE dm.bg]
        ELSE [ok |-> FALSE, val |-> 0]

\* depth_uint8 of live.py:140-146 as a map of the same form
DepthUint8(dm) ==
    LET lo == Min2(dm.v, dm.bg)
        hi == Max2(dm.v, dm.bg)
    IN  IF hi - lo > 0
        THEN [hot |-> dm.hot,
              v   |-> Trunc(255 * (dm.v - lo), hi - lo),
              bg  |-> Trunc(255 * (dm.bg - lo), hi - lo)]
        ELSE \* depth_norm = depth_map, for a flat map of 0s or of 1s
             [hot |-> dm.hot, v |-> dm.v * 255, bg |-> dm.bg * 255]

\* the guard with >= in place of >
DepthDistance_Ge(depth_value) ==
    IF depth_value >= 0 THEN Quot(DEPTH_SCALE, depth_value) ELSE Plain(0)

\* distance = 1000.0 / depth_value if depth_value > 0 else 0
DepthDistance(depth_value) ==
    IF depth_value > 0 THEN Quot(DEPTH_SCALE, depth_value) ELSE Plain(0)

\* the lower clamp alone
Clamp_NoUpper(c, size) == Max2(c, 0)

\* min(max(c, 0), size - 1), and live.py's max(0, min(c, size - 1))
Clamp(c, size) == Min2(Max2(c, 0), size - 1)

\* the centre without the halving of the width
ToCenter_Full(x, w) == Trunc(2 * x + 2 * w, 2)

\* cx = int(x + w/2) of live.py:162-163
ToCenter(x, w) == Trunc(2 * x + w, 2)
\* x_min = int(cx - w / 2) of live.py:110-111 on pixel values
ToCorner(cx, w) == Trunc(2 * cx - w, 2)

(***************************************************************************)
(* What ultralytics returns for a frame in live-detect-TFlite.py: boxes    *)
(* with corners xyxy (hundredths), a confidence and a class of the model's *)
(* own names.                                                              *)
(***************************************************************************)
ResultPool == {
    [xyxy |-> <<10000, 5000, 14000, 13000>>,   conf |-> 90, cls |-> 0],
    [xyxy |-> <<10150, 5025, 14075, 13150>>,   conf |-> 60, cls |-> 1],
    [xyxy |-> <<0, 0, 3000, 2000>>,            conf |-> 55, cls |-> 1],
    [xyxy |-> <<64000, 48000, 64000, 48000>>,  conf |-> 30, cls |-> 0]
}
ResultLists == UNION {SeqsOver(ResultPool, n) : n \in 0..MaxAnchors}

\* name = model.names[cls]; "KeyError" stands for the exception
NameOf(cls) ==
    IF cls \in 0..(Len(CLASSES) - 1) THEN CLASSES[cls + 1] ELSE "KeyError"

\* (w, h), baseline of cv2.getTextSize for a label
TextSize == [w |-> 180, h |-> 14, baseline |-> 6]

(***************************************************************************)
(* Rendering of one detection.                                             *)
(***************************************************************************)
\* one surviving detection of YOLO.py:113-124, box_estimation.py:143-164,
\* live.py:155-180 as the loop body computes it
TensorDet(v, box, cand, depth) ==
    LET label == LabelOf(v, cand.class_id)
        cx == ToCenter(box[1], box[3])
        cy == ToCenter(box[2], box[4])
        sx == Clamp(cx, FrameShape[2])
        sy == Clamp(cy, FrameShape[1])
    IN  [box      |-> box,
         conf     |-> cand.conf,
         class_id |-> cand.class_id,
         label    |-> label,
         center   |-> IF v = "live" THEN <<cx, cy>> ELSE <<0, 0>>,
         sample   |-> IF v = "live" THEN <<sx, sy>> ELSE <<0, 0>>,
         read     |-> IF v = "live" THEN ArrayRead(DepthUint8(depth), sy, sx)
                      ELSE [ok |-> TRUE, val |-> 0],
         distance |-> IF v = "box_estimation"
                      THEN estimate_distance(KnownHeight(label), box[4])
                      ELSE Plain(0)]

\* one box of live-detect-TFlite.py:64-100; box is kept as <<x1, y1, x2, y2>>
ResultDet(r, depth) ==
    LET x1 == Trunc(r.xyxy[1], 100)
        y1 == Trunc(r.xyxy[2], 100)
        x2 == Trunc(r.xyxy[3], 100)
        y2 == Trunc(r.xyxy[4], 100)
        cx == (x1 + x2) \div 2
        cy == (y1 + y2) \div 2
        sx == Clamp(cx, FrameShape[2])
        sy == Clamp(cy, FrameShape[1])
        rd == ArrayRead(depth, sy, sx)
    IN  [box      |-> <<x1, y1, x2, y2>>,
         conf     |-> r.conf,
         class_id |-> r.cls,
         label    |-> NameOf(r.cls),
         center   |-> <<cx, cy>>,
         sample   |-> <<sx, sy>>,
         read     |-> rd,
         distance |-> DepthDistance(rd.val)]

\* the drawing calls of one detection: op, the part of the overlay it draws
\* (the box, the label text, the filled rectangle behind the label), the
\* surface, and the points passed
DrawCalls(v, d) ==
    LET x == d.box[1]
        y == d.box[2]
    IN  CASE v = "YOLO" ->
               << [op |-> "rectangle", part |-> "box", on |-> "frame",
                   p1 |-> <<x, y>>, p2 |-> <<x + d.box[3], y + d.box[4]>>],
                  [op |-> "putText", part |-> "label", on |-> "frame",
                   p1 |-> <<x, y - 10>>, p2 |-> <<x, y - 10>>] >>
          [] v = "box_estimation" ->
               << [op |-> "rectangle", part |-> "box", on |-> "frame",
                   p1 |-> <<x, y>>, p2 |-> <<x + d.box[3], y + d.box[4]>>],
                  [op |-> "rectangle", part |-> "label_bg", on |-> "frame",
                   p1 |-> <<x, y - TextSize.h - TextSize.baseline - 5>>,
                   p2 |-> <<x + TextSize.w, y>>],
                  [op |-> "putText", part |-> "label", on |-> "frame",
                   p1 |-> <<x, y - 5>>, p2 |-> <<x, y - 5>>] >>
          [] v = "live" ->
               << [op |-> "rectangle", part |-> "box", on |-> "combined_frame",
                   p1 |-> <<x, y>>, p2 |-> <<x + d.box[3], y + d.box[4]>>],
                  [op |-> "putText", part |-> "label", on |-> "combined_frame",
                   p1 |-> <<Max2(0, x), Max2(10, y - 5)>>,
                   p2 |-> <<Max2(0, x), Max2(10, y - 5)>>],
                  [op |-> "rectangle", part |-> "box", on |-> "depth_colormap",
                   p1 |-> <<x, y>>, p2 |-> <<x + d.box[3], y + d.box[4]>>],
                  [op |-> "putText", part |-> "label", on |-> "depth_colormap",
                   p1 |-> <<Max2(0, x), Max2(10, y - 5)>>,
                   p2 |-> <<Max2(0, x), Max2(10, y - 5)>>] >>
          [] OTHER ->
               << [op |-> "rectangle", part |-> "box", on |-> "frame",
                   p1 |-> <<x, y>>, p2 |-> <<d.box[3], d.box[4]>>],
                  [op |-> "rectangle", part |-> "label_bg", on |-> "frame",
                   p1 |-> <<x, y - 25>>, p2 |-> <<x + TextSize.w, y>>],
                  [op |-> "putText", part |-> "label", on |-> "frame",
                   p1 |-> <<x, y - 7>>, p2 |-> <<x, y - 7>>] >>

\* does the loop body raise on this detection
Raises(d) == d.label \in {"IndexError", "KeyError"} \/ ~d.read.ok \/ d.distance.den = 0

\* the detections the for loop completes: all of them, or those before the
\* first one that raises
Completed(ds) ==
    IF \E k \in 1..Len(ds) : Raises(ds[k])
    THEN SubSeq(ds, 1, (CHOOSE k \in 1..Len(ds) :
                           Raises(ds[k]) /\ \A j \in 1..(k - 1) : ~Raises(ds[j])) - 1)
    ELSE ds

RECURSIVE Flatten(_)
Flatten(ss) == IF ss = <<>> THEN <<>> ELSE Head(ss) \o Flatten(Tail(ss))

(***************************************************************************)
(* State.                                                                  *)
(***************************************************************************)
VARIABLES
    variant,      \* the script that runs
    files,        \* the model artifacts present on disk
    camOk,        \* whether the camera device can be opened
    modelKind,    \* the detection model artifact
    pc,           \* position of the script
    cap,          \* "none", "open", "failed" (created, not opened), "released"
    handles,      \* the model artifacts loaded
    loads,        \* model loads performed
    log,          \* messages and tracebacks written
    reads,        \* cap.read() calls
    readFailed,   \* a cap.read() returned ret = False
    inferences,   \* iterations that invoked the detection model
    renders,      \* iterations that reached the drawing step
    shown,        \* cv2.imshow calls
    releases,     \* cap.release() calls
    raw,          \* the detector tensor of this iteration
    depth_map,    \* the depth map of this iteration
    results,      \* the ultralytics results of this iteration
    transposed,   \* whether the layout step transposed the tensor
    cands,        \* anchors left by the confidence mask
    cv2_boxes,    \* their frame boxes
    nmsCalls,     \* calls of cv2.dnn.NMSBoxes in this iteration
    indices,      \* its result
    dets,         \* detections drawn in this iteration
    draws,        \* drawing calls of this iteration
    key,          \* 'q' was pressed and no waitKey has taken it yet
    keyChecks,    \* cv2.waitKey calls
    quit,         \* "no", or when the 'q' that ended the loop was pressed
    source_root,  \* merge.py: the class directory under unzipped_data
    target_root,  \* merge.py: files written under dataset
    data_yaml,    \* merge.py: the manifest written, or "none"
    mergePc,      \* merge.py: position of the script
    archive,      \* unzip.py: the files extracted from the archive
    pairs,        \* unzip.py: the (image, label) pairs found
    placed,       \* unzip.py: the files copied to train and val
    unzipPc       \* unzip.py: position of the script

vars == <<variant, files, camOk, modelKind, pc, cap, handles, loads, log, reads,
          readFailed, inferences, renders, shown, releases, raw, depth_map,
          results, transposed, cands, cv2_boxes, nmsCalls, indices, dets, draws,
          key, keyChecks, quit, source_root, target_root, data_yaml, mergePc,
          archive, pairs, placed, unzipPc>>

runVars == <<variant, files, camOk, modelKind>>
countVars == <<reads, readFailed, inferences, renders, shown, releases>>
frameVars == <<raw, depth_map, results, transposed, cands, cv2_boxes, nmsCalls,
               indices, dets, draws>>
keyVars == <<key, keyChecks, quit>>
mergeVars == <<source_root, target_root, data_yaml, mergePc>>
unzipVars == <<archive, pairs, placed, unzipPc>>
dataVars == <<mergeVars, unzipVars>>
scriptVars == <<runVars, pc, cap, handles, loads, log, countVars, frameVars, keyVars>>

\* the dataset scripts are not running
MergeIdle ==
    /\ source_root = [cls |-> 0]
    /\ target_root = {}
    /\ data_yaml = {}
    /\ mergePc = "idle"
UnzipIdle ==
    /\ archive = [bulk |-> 0, files |-> {}]
    /\ pairs = [bulk |-> 0, extra |-> {}]
    /\ placed = [train |-> [bulk |-> 0, files |-> {}],
                 val   |-> [bulk |-> 0, files |-> {}]]
    /\ unzipPc = "idle"

\* the artifacts each script names
Artifacts(v) ==
    CASE v = "live"   -> {"yolov8n.tflite", "midas.tflite"}
      [] v = "TFlite" -> {"best-obj.tflite", "best.pt", "midas.tflite"}
      [] OTHER        -> {"yolov8n.tflite"}

Init ==
    /\ variant \in Variants
    /\ files \in SUBSET Artifacts(variant)
    /\ camOk \in BOOLEAN
    /\ modelKind \in IF variant = "TFlite"
                     THEN {[layout |-> "anchor_major", nc |-> Len(CLASSES)]}
                     ELSE ModelKinds
    /\ pc = "start"
    /\ cap = "none"
    /\ handles = {}
    /\ loads = 0
    /\ log = {}
    /\ reads = 0
    /\ readFailed = FALSE
    /\ inferences = 0
    /\ renders = 0
    /\ shown = 0
    /\ releases = 0
    /\ raw = <<>>
    /\ depth_map = NoDepth
    /\ results = <<>>
    /\ transposed = FALSE
    /\ cands = <<>>
    /\ cv2_boxes = <<>>
    /\ nmsCalls = 0
    /\ indices = <<>>
    /\ dets = <<>>
    /\ draws = <<>>
    /\ key = FALSE
    /\ keyChecks = 0
    /\ quit = "no"
    /\ MergeIdle
    /\ UnzipIdle

(***************************************************************************)
(* Start-up.                                                               *)
(***************************************************************************)
\* only the detection model is checked
Required_YoloOnly(v) == {"yolov8n.tflite"}

\* the artifacts main() checks with os.path.exists before loading
\* (YOLO.py:23, box_estimation.py:64, live.py:35)
Required(v) == Artifacts(v)

\* YOLO.py:23-42, box_estimation.py:64-73, live.py:35-49
StartMain ==
    /\ pc = "start"
    /\ variant \in TensorVariants
    /\ IF Required(variant) \subseteq files
       THEN /\ handles' = Required(variant)
            /\ loads' = Cardinality(Required(variant))
            /\ log' = log
            /\ pc' = "loaded"
       ELSE /\ log' = log \cup {"Error: model not found"}
            /\ pc' = "exited"
            /\ UNCHANGED <<handles, loads>>
    /\ UNCHANGED <<runVars, dataVars, cap, countVars, frameVars, keyVars>>

\* live-detect-TFlite.py:8-25
StartTFlite ==
    /\ pc = "start"
    /\ variant = "TFlite"
    /\ LET first == "best-obj.tflite" \in files
           detector == IF first THEN {"best-obj.tflite"}
                       ELSE IF "best.pt" \in files THEN {"best.pt"} ELSE {}
           said == IF first THEN {} ELSE {"Error loading TFLite model"}
       IN  IF detector = {}
           THEN /\ log' = log \cup said \cup {"Traceback"}
                /\ pc' = "crashed"
                /\ UNCHANGED <<handles, loads>>
           ELSE IF "midas.tflite" \notin files
           THEN /\ log' = log \cup said \cup {"Traceback"}
                /\ handles' = detector
                /\ loads' = 1
                /\ pc' = "crashed"
           ELSE /\ log' = log \cup said
                /\ handles' = detector \cup {"midas.tflite"}
                /\ loads' = 2
                /\ pc' = "loaded"
    /\ UNCHANGED <<runVars, dataVars, cap, countVars, frameVars, keyVars>>

\* cap = cv2.VideoCapture(0), and the isOpened() check of YOLO.py:45-48 and
\* live-detect-TFlite.py:28-32
OpenCapture ==
    /\ pc = "loaded"
    /\ cap' = IF camOk THEN "open" ELSE "failed"
    /\ IF ~camOk /\ variant \in {"YOLO", "TFlite"}
       THEN /\ log' = log \cup {"Error: Could not open webcam."}
            /\ pc' = "exited"
       ELSE /\ log' = log
            /\ pc' = "loop"
    /\ UNCHANGED <<runVars, dataVars, handles, loads, countVars, frameVars, keyVars>>

(***************************************************************************)
(* The frame loop.                                                         *)
(***************************************************************************)
ClearFrame ==
    /\ raw' = <<>>
    /\ depth_map' = NoDepth
    /\ results' = <<>>
    /\ transposed' = FALSE
    /\ cands' = <<>>
    /\ cv2_boxes' = <<>>
    /\ nmsCalls' = 0
    /\ indices' = <<>>
    /\ dets' = <<>>
    /\ draws' = <<>>

\* continue in place of break
AfterReadFailure_Continue == "loop"

\* where the script goes when cap.read() returns ret = False
AfterReadFailure == "after_loop"

\* ret, frame = cap.read(); if not ret: break
\* (YOLO.py:53-55, box_estimation.py:79-82, live.py:55-58,
\* live-detect-TFlite.py:36-40); a capture that did not open returns False.
\* The loop condition of live-detect-TFlite.py, cap.isOpened(), is true
\* whenever that script reaches the loop.
ReadFrame ==
    /\ pc = "loop"
    /\ reads < MaxFrames
    /\ \E ret \in (IF cap = "open" THEN BOOLEAN ELSE {FALSE}) :
          /\ reads' = reads + 1
          /\ IF ret
             THEN /\ pc' = "frame"
                  /\ UNCHANGED <<readFailed, log>>
             ELSE /\ pc' = AfterReadFailure
                  /\ readFailed' = TRUE
                  /\ log' = IF variant = "YOLO" THEN log
                            ELSE log \cup {"Failed to grab frame"}
    /\ ClearFrame
    /\ UNCHANGED <<runVars, dataVars, cap, handles, loads, inferences, renders, shown, releases,
                   keyVars>>

\* the drawing loop on the detections all: dets, draws, and whether an
\* exception ended it
DrawLoop(v, all) ==
    LET done == Completed(all)
    IN  [dets   |-> done,
         draws  |-> Flatten([k \in 1..Len(done) |-> DrawCalls(v, done[k])]),
         raised |-> Len(done) < Len(all)]

\* YOLO.py:57-127, box_estimation.py:84-166, live.py:60-184: the loop body
\* from preprocessing to cv2.imshow: inference, the detection
\* postprocessor, NMS, (live.py) the depth inference, the overlays, the
\* display.  An exception raised while drawing ends the process.
ProcessTensorFrame ==
    /\ pc = "frame"
    /\ variant \in TensorVariants
    /\ \E anchors \in AnchorLists,
          dm \in (IF variant = "live" THEN LiveDepthMaps ELSE {NoDepth}) :
          \E r \in {RawOutput(anchors, modelKind)} :
          \E c \in {Masked(Layout(r), ScoreThreshold(variant))} :
          \E bx \in {Cv2Boxes(variant, c)} :
          \E idx \in {NmsIndices(variant, bx, c)} :
          \E all \in {IF Len(idx) > 0
                      THEN [k \in 1..Len(idx) |->
                               TensorDet(variant, bx[idx[k]], c[idx[k]], dm)]
                      ELSE <<>>} :
          \E out \in {DrawLoop(variant, all)}, pressed \in BOOLEAN :
              /\ key' = pressed
              /\ raw' = r
              /\ depth_map' = dm
              /\ transposed' = IsTransposed(r)
              /\ cands' = c
              /\ cv2_boxes' = bx
              /\ indices' = idx
              /\ dets' = out.dets
              /\ draws' = out.draws
              /\ pc' = IF out.raised THEN "crashed" ELSE "shown"
              /\ shown' = IF out.raised THEN shown ELSE shown + 1
              /\ log' = IF out.raised THEN log \cup {"Traceback"} ELSE log
    /\ nmsCalls' = nmsCalls + 1
    /\ inferences' = inferences + 1
    /\ renders' = renders + 1
    /\ UNCHANGED <<runVars, dataVars, cap, handles, loads, reads, readFailed, releases, results,
                   keyChecks, quit>>

\* live-detect-TFlite.py:42-103: both inferences, the overlays, the display
ProcessTFliteFrame ==
    /\ pc = "frame"
    /\ variant = "TFlite"
    /\ \E rs \in ResultLists, dm \in DepthMaps :
          \E all \in {[k \in 1..Len(rs) |-> ResultDet(rs[k], dm)]} :
          \E out \in {DrawLoop(variant, all)}, pressed \in BOOLEAN :
              /\ key' = pressed
              /\ results' = rs
              /\ depth_map' = dm
              /\ dets' = out.dets
              /\ draws' = out.draws
              /\ pc' = IF out.raised THEN "crashed" ELSE "shown"
              /\ shown' = IF out.raised THEN shown ELSE shown + 1
              /\ log' = IF out.raised THEN log \cup {"Traceback"} ELSE log
    /\ inferences' = inferences + 1
    /\ renders' = renders + 1
    /\ UNCHANGED <<runVars, dataVars, cap, handles, loads, reads, readFailed, releases, raw,
                   transposed, cands, cv2_boxes, nmsCalls, indices, keyChecks, quit>>

\* the key is ignored
AfterKey_Ignore(q) == "loop"

\* where the script goes after cv2.waitKey: break on 'q'
AfterKey(q) == IF q THEN "after_loop" ELSE "loop"

\* if cv2.waitKey(1) & 0xFF == ord('q'): break
\* (YOLO.py:129-130, box_estimation.py:168-169, live.py:186-187,
\* live-detect-TFlite.py:106-107).  waitKey returns a 'q' that was pressed
\* while the frame was processed, or one pressed during its own wait.
WaitKey ==
    /\ pc = "shown"
    /\ \E now \in BOOLEAN :
          /\ pc' = AfterKey(key \/ now)
          /\ quit' = IF key THEN "mid_frame" ELSE IF now THEN "at_wait" ELSE "no"
    /\ key' = FALSE
    /\ keyChecks' = keyChecks + 1
    /\ UNCHANGED <<runVars, dataVars, cap, handles, loads, log, countVars, frameVars>>

\* cap.release(); cv2.destroyAllWindows()
Release ==
    /\ pc = "after_loop"
    /\ cap' = "released"
    /\ releases' = releases + 1
    /\ pc' = "done"
    /\ log' = IF variant = "TFlite" THEN log \cup {"Webcam closed."} ELSE log
    /\ UNCHANGED <<runVars, dataVars, handles, loads, reads, readFailed, inferences, renders,
                   shown, frameVars, keyVars>>

Next ==
    \/ StartMain
    \/ StartTFlite
    \/ OpenCapture
    \/ ReadFrame
    \/ ProcessTensorFrame
    \/ ProcessTFliteFrame
    \/ WaitKey
    \/ Release

Spec == Init /\ [][Next]_vars

(***************************************************************************)
(* The centre computation of live.py on its own: every small box, through  *)
(* live.py:156-166.                                                        *)
(***************************************************************************)
SmallBoxes ==
    {<<x, y, w, h>> : x \in (-BoxRange)..BoxRange, y \in (-BoxRange)..BoxRange,
                      w \in 0..(2 * BoxRange), h \in 0..(2 * BoxRange)}

InitBoxes ==
    /\ variant = "live"
    /\ files = Artifacts("live")
    /\ camOk = TRUE
    /\ modelKind = [layout |-> "attr_major", nc |-> Len(CLASSES)]
    /\ pc = "box"
    /\ cap = "open"
    /\ handles = Artifacts("live")
    /\ loads = 2
    /\ log = {}
    /\ reads = 1
    /\ readFailed = FALSE
    /\ inferences = 1
    /\ renders = 0
    /\ shown = 0
    /\ releases = 0
    /\ raw = <<>>
    /\ depth_map = NoDepth
    /\ results = <<>>
    /\ transposed = FALSE
    /\ cands = << [box |-> <<0, 0, 0, 0>>, class_id |-> 0, conf |-> 90] >>
    /\ \E b \in SmallBoxes : cv2_boxes = <<b>>
    /\ nmsCalls = 1
    /\ indices = <<1>>
    /\ dets = <<>>
    /\ draws = <<>>
    /\ key = FALSE
    /\ keyChecks = 0
    /\ quit = "no"
    /\ MergeIdle
    /\ UnzipIdle

\* live.py:156-166 for the one box of the frame
CenterOfBox ==
    /\ pc = "box"
    /\ dets' = << TensorDet("live", cv2_boxes[1], cands[1], depth_map) >>
    /\ pc' = "box_done"
    /\ UNCHANGED <<runVars, dataVars, cap, handles, loads, log, countVars, raw, depth_map,
                   results, transposed, cands, cv2_boxes, nmsCalls, indices, draws,
                   keyVars>>

NextBoxes == CenterOfBox

SpecBoxes == InitBoxes /\ [][NextBoxes]_vars

(***************************************************************************)
(* models/merge.py: the per-class trees under unzipped_data are copied     *)
(* into one dataset tree, label files get the class id of their directory, *)
(* and data.yaml is written.                                               *)
(*                                                                         *)
(* Text is a tuple of one-character strings; a label line is kept as       *)
(* f.readlines() returns it, with its line end.                            *)
(***************************************************************************)
\* no detection script is running
NoScript ==
    /\ variant = "none"
    /\ files = {}
    /\ camOk = FALSE
    /\ modelKind = [layout |-> "anchor_major", nc |-> Len(CLASSES)]
    /\ pc = "idle"
    /\ cap = "none"
    /\ handles = {}
    /\ loads = 0
    /\ log = {}
    /\ reads = 0
    /\ readFailed = FALSE
    /\ inferences = 0
    /\ renders = 0
    /\ shown = 0
    /\ releases = 0
    /\ raw = <<>>
    /\ depth_map = NoDepth
    /\ results = <<>>
    /\ transposed = FALSE
    /\ cands = <<>>
    /\ cv2_boxes = <<>>
    /\ nmsCalls = 0
    /\ indices = <<>>
    /\ dets = <<>>
    /\ draws = <<>>
    /\ key = FALSE
    /\ keyChecks = 0
    /\ quit = "no"

\* merge.py:16-29
class_names == <<"Bicycle", "Bus", "Car", "Chair", "Cow", "Dogs", "Motorcycle",
                 "Person", "Stair", "Table", "Trash", "Truck">>

\* name.lower().replace(" ", "_").replace("-", "_") on the names of the list
slugify(name) ==
    CASE name = "Bicycle"    -> "bicycle"
      [] name = "Bus"        -> "bus"
      [] name = "Car"        -> "car"
      [] name = "Chair"      -> "chair"
      [] name = "Cow"        -> "cow"
      [] name = "Dogs"       -> "dogs"
      [] name = "Motorcycle" -> "motorcycle"
      [] name = "Person"     -> "person"
      [] name = "Stair"      -> "stair"
      [] name = "Table"      -> "table"
      [] name = "Trash"      -> "trash"
      [] name = "Truck"      -> "truck"

\* classes = {name: {"id": idx, "slug": slugify(name)}}, in list order
classes ==
    [i \in 1..Len(class_names) |->
        [name |-> class_names[i], id |-> i - 1, slug |-> slugify(class_names[i])]]

Digits == <<"0", "1", "2", "3", "4", "5", "6", "7", "8", "9">>

RECURSIVE Str(_)
\* str(n) for n >= 0
Str(n) ==
    IF n < 10 THEN <<Digits[n + 1]>>
    ELSE Str(n \div 10) \o <<Digits[(n % 10) + 1]>>

\* the characters str.strip() and str.split() treat as space
Whitespace == {" ", "\n"}

RECURSIVE LStrip(_)
LStrip(t) ==
    IF t # <<>> /\ Head(t) \in Whitespace THEN LStrip(Tail(t)) ELSE t
RECURSIVE RStrip(_)
RStrip(t) ==
    IF t # <<>> /\ t[Len(t)] \in Whitespace
    THEN RStrip(SubSeq(t, 1, Len(t) - 1)) ELSE t
\* line.strip()
Strip(t) == RStrip(LStrip(t))

\* length of the run of non-space characters t starts with
TokenLen(t) ==
    IF \E i \in 1..Len(t) : t[i] \in Whitespace
    THEN (CHOOSE i \in 1..Len(t) :
             t[i] \in Whitespace /\ \A j \in 1..(i - 1) : t[j] \notin Whitespace) - 1
    ELSE Len(t)

RECURSIVE Split(_)
\* t.split(): the runs of non-space characters
Split(t) ==
    IF t = <<>> THEN <<>>
    ELSE IF Head(t) \in Whitespace THEN Split(Tail(t))
    ELSE <<SubSeq(t, 1, TokenLen(t))>> \o Split(SubSeq(t, TokenLen(t) + 1, Len(t)))

RECURSIVE Join(_, _)
\* sep.join(ts)
Join(ts, sep) ==
    IF ts = <<>> THEN <<>>
    ELSE IF Len(ts) = 1 THEN ts[1]
    ELSE ts[1] \o <<sep>> \o Join(Tail(ts), sep)

\* the lines a source label file may hold
LabelLines == {
    <<"3", " ", "a", " ", "b", "\n">>,                   \* "3 a b"
    <<"\n">>,                                            \* empty line
    <<" ", "1", "0", " ", " ", "a", " ", "\n">>,         \* " 10  a "
    <<"7">>                                              \* "7", no line end
}
LabelTexts == UNION {SeqsOver(LabelLines, n) : n \in 0..MaxLines}

\* an image of a split directory (a name that passes the extension filter
\* of merge.py:59-63) and the label file of the same name, if there is one
SourceFiles ==
    {[name |-> "a", ext |-> ".jpg", labelled |-> TRUE, lines |-> ls] : ls \in LabelTexts}
      \cup {[name |-> "a", ext |-> ".jpg", labelled |-> FALSE, lines |-> <<>>]}

\* <class>/<split>/images and labels: absent, empty, or with one image
SourceDirs ==
    {[isdir |-> FALSE, files |-> <<>>], [isdir |-> TRUE, files |-> <<>>]}
      \cup {[isdir |-> TRUE, files |-> <<f>>] : f \in SourceFiles}

\* the line keeps its class token
NewLine_Keep(line, class_id) ==
    LET parts == Split(Strip(line))
    IN  IF parts # <<>> THEN << Join(parts, " ") >> ELSE <<>>

\* merge.py:85-88: the rewritten line, or nothing for a blank line
NewLine(line, class_id) ==
    LET parts == Split(Strip(line))
    IN  IF parts # <<>> THEN << Join(<<Str(class_id)>> \o Tail(parts), " ") >>
        ELSE <<>>

\* merge.py:83-91: what is written to dst_lbl
LabelContent(lines, class_id) ==
    Join(Flatten([k \in 1..Len(lines) |-> NewLine(lines[k], class_id)]), "\n")

\* merge.py:66-93 for one image: the files written under dataset/<split>
MergedFiles(meta, split, f) ==
    LET new_name == <<meta.slug, "_", f.name>>
    IN  {[split |-> split, kind |-> "images", name |-> new_name, ext |-> f.ext,
          content |-> <<>>]}
          \cup (IF f.labelled
                THEN {[split |-> split, kind |-> "labels", name |-> new_name,
                       ext |-> ".txt", content |-> LabelContent(f.lines, meta.id)]}
                ELSE {})

InitMerge ==
    /\ NoScript
    /\ UnzipIdle
    /\ source_root \in {[cls |-> c, train |-> d1, val |-> d2] :
                          c \in 0..(Len(class_names) - 1),
                          d1 \in SourceDirs, d2 \in SourceDirs}
    /\ target_root = {}
    /\ data_yaml = {}
    /\ mergePc = "train"

\* merge.py:51-93 for one split of the class directory that exists; for
\* the other classes img_dir is missing and the split is skipped
MergeSplit ==
    /\ mergePc \in {"train", "val"}
    /\ LET dir == source_root[mergePc]
           meta == classes[source_root.cls + 1]
       IN  target_root' =
               IF dir.isdir
               THEN target_root \cup
                    UNION {MergedFiles(meta, mergePc, dir.files[k]) :
                              k \in 1..Len(dir.files)}
               ELSE target_root
    /\ mergePc' = IF mergePc = "train" THEN "val" ELSE "yaml"
    /\ UNCHANGED <<scriptVars, unzipVars, source_root, data_yaml>>

\* merge.py:98-107
WriteDataYaml ==
    /\ mergePc = "yaml"
    /\ data_yaml' =
          {[train |-> "train/images", val |-> "val/images",
            nc    |-> Len(class_names),
            names |-> [idx \in {classes[i].id : i \in 1..Len(classes)} |->
                          classes[CHOOSE i \in 1..Len(classes) :
                                     classes[i].id = idx].name]]}
    /\ mergePc' = "done"
    /\ UNCHANGED <<scriptVars, unzipVars, source_root, target_root>>

NextMerge == MergeSplit \/ WriteDataYaml

SpecMerge == InitMerge /\ [][NextMerge]_vars

(***************************************************************************)
(* models/unzip.py for one archive: the files of the archive are paired    *)
(* by base name, the pairs are shuffled and cut into train and val, and    *)
(* the files of each part are copied under their base names.               *)
(*                                                                         *)
(* An archive is a number of ordinary pairs (an image and its label, in    *)
(* one sub-directory, under a base name no other file has), counted in     *)
(* bulk, and a few files given one by one as [dir, base, ext], dir being   *)
(* the sub-directory of the archive the file lies under.                   *)
(***************************************************************************)
ExtraFiles == {
    [dir |-> "train", base |-> "a", ext |-> ".jpg"],
    [dir |-> "train", base |-> "a", ext |-> ".txt"],
    [dir |-> "valid", base |-> "a", ext |-> ".jpg"],
    [dir |-> "valid", base |-> "a", ext |-> ".txt"],
    [dir |-> "train", base |-> "a", ext |-> ".png"],
    [dir |-> "train", base |-> "b", ext |-> ".jpg"],
    [dir |-> "train", base |-> "b", ext |-> ".txt"]
}

\* archives just below num_train pairs, just below num_train + num_val, and
\* small ones
BulkCounts == {0, num_train - 1, num_train + num_val - 1}

\* the patterns of unzip.py:38 and :42 on these files
IsImage(f) == f.ext \in {".jpg", ".png"}
IsLabel(f) == f.ext = ".txt"

\* os.path.basename
Basename(f) == <<f.base, f.ext>>

\* unzip.py:43-48: one label path per base name; when two label files share
\* a base name the one glob lists last stays, and glob's order is that of
\* the file system
LabelDicts(fs) ==
    LET bases == {f.base : f \in {g \in fs : IsLabel(g)}}
    IN  {d \in [bases -> {g \in fs : IsLabel(g)}] : \A b \in bases : d[b].base = b}

\* unzip.py:51-57
PairsOf(fs, label_dict) ==
    {<<img, label_dict[img.base]>> :
        img \in {g \in fs : IsImage(g) /\ g.base \in DOMAIN label_dict}}

\* the files one place_pairs call leaves in a split: one file per base
\* name, and when two sources share it, the one copied last
PlacedSets(selected) ==
    LET copies == {[name |-> Basename(p[1]), src |-> p[1]] : p \in selected}
                    \cup {[name |-> Basename(p[2]), src |-> p[2]] : p \in selected}
        names == {c.name : c \in copies}
    IN  {fs \in SUBSET copies :
            \A nm \in names : Cardinality({c \in fs : c.name = nm}) = 1}

InitUnzip ==
    /\ NoScript
    /\ MergeIdle
    /\ archive \in {[bulk |-> b, files |-> fs] :
                      b \in BulkCounts, fs \in SUBSET ExtraFiles}
    /\ pairs = [bulk |-> 0, extra |-> {}]
    /\ placed = [train |-> [bulk |-> 0, files |-> {}],
                 val   |-> [bulk |-> 0, files |-> {}]]
    /\ unzipPc = "extracted"

\* unzip.py:36-57
CollectPairs ==
    /\ unzipPc = "extracted"
    /\ \E label_dict \in LabelDicts(archive.files) :
          pairs' = [bulk |-> archive.bulk, extra |-> PairsOf(archive.files, label_dict)]
    /\ unzipPc' = "paired"
    /\ UNCHANGED <<scriptVars, mergeVars, archive, placed>>

\* len(pairs[:num_train])
Train(n) == Min2(n, num_train)
\* len(pairs[num_train:num_train + num_val])
Val(n) == Max2(0, Min2(n, num_train + num_val) - num_train)

\* unzip.py:60-97: shuffle, slice, place_pairs for train and for val.  The
\* shuffle may put any pair at any position: tr and va are the listed pairs
\* that land in the two slices, the rest of each slice is bulk.
SplitAndPlace ==
    /\ unzipPc = "paired"
    /\ \E tr \in SUBSET pairs.extra :
       \E va \in SUBSET (pairs.extra \ tr) :
       \E n \in {pairs.bulk + Cardinality(pairs.extra)} :
       \E bt \in {Train(n) - Cardinality(tr)} :
       \E bv \in {Val(n) - Cardinality(va)} :
          /\ bt >= 0 /\ bv >= 0 /\ bt + bv <= pairs.bulk
          /\ n - Train(n) - Val(n) >= Cardinality(pairs.extra \ (tr \cup va))
          /\ \E ft \in PlacedSets(tr), fv \in PlacedSets(va) :
                placed' = [train |-> [bulk |-> bt, files |-> ft],
                           val   |-> [bulk |-> bv, files |-> fv]]
    /\ unzipPc' = "done"
    /\ UNCHANGED <<scriptVars, mergeVars, archive, pairs>>

NextUnzip == CollectPairs \/ SplitAndPlace

SpecUnzip == InitUnzip /\ [][NextUnzip]_vars

(***************************************************************************)
(* Properties.                                                             *)
(***************************************************************************)
\* the loop body of a tensor script has run on the frame
Processed == variant \in TensorVariants /\ pc \in {"shown", "crashed"}

\* IoU of two frame boxes with area exceeds thr / 100
IoUExceeds(a, b, thr) ==
    100 * InterArea(a, b) > thr * (RectArea(a) + RectArea(b) - InterArea(a, b))

\* C1: in every detection variant, when two candidates pass the confidence
\* threshold, two of the same class whose boxes overlap with IoU above the
\* variant's IoU threshold leave exactly one survivor, the one of higher
\* confidence, and two of different classes with the same box both survive.
C1_NmsPairs ==
    (Processed /\ Len(cands) = 2
       /\ RectArea(cv2_boxes[1]) > 0 /\ RectArea(cv2_boxes[2]) > 0
       /\ ~RectEmpty(cv2_boxes[1]) /\ ~RectEmpty(cv2_boxes[2]))
    => /\ (cands[1].class_id = cands[2].class_id
             /\ IoUExceeds(cv2_boxes[1], cv2_boxes[2], NmsThreshold(variant)))
          => /\ Len(indices) = 1
             /\ \A k \in 1..2 : cands[indices[1]].conf >= cands[k].conf
       /\ (cands[1].class_id # cands[2].class_id /\ cv2_boxes[1] = cv2_boxes[2])
          => Len(indices) = 2

\* the code's detections for a tensor t: the layout step, then the mask
DetectionsOf(t) == Masked(Layout(t), ScoreThreshold(variant))

\* C2: the output of a detector of 84 attributes in shape (84, N), for every
\* N including N = 84, is transposed and gives the detections the code gives
\* for the equivalent (N, 84) tensor; an output already in (anchor,
\* attribute) layout is not transposed.
C2_Layout ==
    (Processed /\ modelKind.nc = Len(CLASSES))
    => /\ (modelKind.layout = "attr_major"
             => transposed /\ cands = DetectionsOf(Transpose(raw)))
       /\ (modelKind.layout = "anchor_major" => ~transposed)

\* C3: every class id of a detection in the drawing loop resolves to a
\* label: the table's entry for an id in 0..len(table)-1, "Unknown" for any
\* other id, and the lookup never raises.
C3_Labels ==
    Processed
    => /\ pc = "shown"
       /\ Len(dets) = Len(indices)
       /\ \A k \in 1..Len(dets) :
             dets[k].label = IF dets[k].class_id \in 0..(Len(CLASSES) - 1)
                             THEN CLASSES[dets[k].class_id + 1]
                             ELSE "Unknown"

\* out of the layout step, for the tensor of this iteration
OutRows == Layout(raw)
\* the rows of out whose largest class score exceeds the threshold
KeptRows ==
    {i \in 1..Len(OutRows) :
        \E j \in 5..Len(OutRows[i]) : OutRows[i][j] > ScoreThreshold(variant)}
\* the k-th of them
KeptRow(k) == CHOOSE i \in KeptRows : Cardinality({j \in KeptRows : j <= i}) = k

\* C4: the mask keeps an anchor exactly when its largest class score is
\* strictly above the confidence threshold (with threshold 0.5: 0.49 and
\* 0.50 are dropped, 0.51 is kept), in the order of the anchors, and the
\* class id and confidence kept for it are the first argmax and the max of
\* its own score columns.
C4_Threshold ==
    Processed
    => /\ Len(cands) = Cardinality(KeptRows)
       /\ \A k \in 1..Len(cands) :
             LET row == OutRows[KeptRow(k)]
                 c   == cands[k]
             IN  /\ c.box = <<row[1], row[2], row[3], row[4]>>
                 /\ c.class_id + 5 \in 5..Len(row)
                 /\ row[c.class_id + 5] = c.conf
                 /\ \A j \in 5..Len(row) : row[j] <= c.conf
                 /\ \A j \in 5..(c.class_id + 4) : row[j] < c.conf
       /\ (ScoreThreshold(variant) = 50
             => \A i \in 1..Len(OutRows) :
                   /\ SeqMax(ScoresOf(OutRows[i])) \in {49, 50} => i \notin KeptRows
                   /\ SeqMax(ScoresOf(OutRows[i])) = 51 =>
                         \E k \in 1..Len(cands) : KeptRow(k) = i /\ cands[k].conf = 51)

\* a frame of YOLO.py (threshold 0.5) with an anchor of largest score 0.50,
\* dropped, and one of largest score 0.51, kept
C4_Witness ==
    /\ Processed /\ variant = "YOLO" /\ Len(OutRows) = 2
    /\ SeqMax(ScoresOf(OutRows[1])) = 50
    /\ SeqMax(ScoresOf(OutRows[2])) = 51
    /\ Len(cands) = 1 /\ cands[1].conf = 51

\* the known height the script looks up for a label
HeightFor(label) ==
    IF label = "person" THEN 170 ELSE IF label = "bicycle" THEN 105 ELSE 50

\* C5: estimate_distance returns exactly 0, without dividing, for every
\* apparent height <= 0 and any known height, and known_height * 700 /
\* apparent_height for every apparent height > 0; no detection of
\* box_estimation.py raises in it.
C5_EstimateDistance ==
    (variant = "box_estimation" /\ pc \in {"shown", "crashed"})
    => /\ pc = "shown"
       /\ Len(dets) = Len(indices)
       /\ \A k \in 1..Len(dets) :
             LET h == cv2_boxes[indices[k]][4]
                 d == dets[k].distance
             IN  /\ h <= 0 => (d.num = 0 /\ d.den = 1 /\ d.divs = 0)
                 /\ h > 0  => /\ d.divs = 1
                              /\ d.den # 0
                              /\ d.num * h = HeightFor(dets[k].label) * 700 * d.den

\* a frame of box_estimation.py with one detection of height 0 and one of
\* positive height
C5_Witness ==
    /\ variant = "box_estimation" /\ pc = "shown" /\ Len(dets) = 2
    /\ \E k \in 1..2 : dets[k].box[4] = 0 /\ dets[k].distance.num = 0
    /\ \E k \in 1..2 : dets[k].box[4] > 0 /\ dets[k].distance.num = 170 * 700

\* value of the depth map at row r, column c of the frame
DepthValue(r, c) == IF <<r, c>> = depth_map.hot THEN depth_map.v ELSE depth_map.bg

\* C6: in the depth-map strategy with the calibration constant
\* (live-detect-TFlite.py) the distance of a detection is 1000 divided by
\* the depth value at the centre pixel of its box (the centre brought into
\* the frame), and 0 when that value is <= 0; a box (x=100, y=50, w=40,
\* h=80) whose centre pixel (120, 90) holds depth 10 is at distance 100.
C6_DepthDistance ==
    (variant = "TFlite" /\ pc \in {"shown", "crashed"} /\ renders > 0)
    => /\ pc = "shown"
       /\ Len(dets) = Len(results)
       /\ \A k \in 1..Len(dets) :
             LET b  == dets[k].box
                 cx == Min2(Max2((b[1] + b[3]) \div 2, 0), 639)
                 cy == Min2(Max2((b[2] + b[4]) \div 2, 0), 479)
                 dv == DepthValue(cy, cx)
                 d  == dets[k].distance
             IN  /\ dv > 0  => (d.den # 0 /\ d.num * dv = 1000 * d.den)
                 /\ dv <= 0 => (d.num = 0 /\ d.den = 1)
                 /\ (b = <<100, 50, 140, 130>> /\ DepthValue(90, 120) = 10)
                       => d.num = 100 * d.den

\* the box (100, 50, 40, 80) over depth 10 at (120, 90), and a box over a
\* depth of 0, drawn in one frame
C6_Witness ==
    /\ variant = "TFlite" /\ pc = "shown"
    /\ \E k \in 1..Len(dets) :
          /\ dets[k].box = <<100, 50, 140, 130>>
          /\ dets[k].sample = <<120, 90>>
          /\ dets[k].read.val = 10
          /\ dets[k].distance.num = 100 * dets[k].distance.den
    /\ \E k \in 1..Len(dets) : dets[k].read.val <= 0 /\ dets[k].distance.num = 0

\* C7: a box in corner form taken to centre form (cx = int(x + w/2)) and
\* back (x_min = int(cx - w/2)) lands within 1 pixel of each original
\* corner coordinate, for odd and even sizes and corners on both sides of 0.
C7_RoundTrip ==
    pc = "box_done"
    => LET b == cv2_boxes[1]
           c == dets[1].center
       IN  /\ Abs(ToCorner(c[1], b[3]) - b[1]) <= 1
           /\ Abs(ToCorner(c[2], b[4]) - b[2]) <= 1

\* a box of odd width and height with a negative corner whose round trip
\* moves the corner by a pixel
C7_Witness ==
    /\ pc = "box_done"
    /\ cv2_boxes[1] = <<-3, -2, 3, 5>>
    /\ ToCorner(dets[1].center[1], 3) = -2

\* no row of out has a class score above the confidence threshold
NoAnchorClears ==
    \A i \in 1..Len(OutRows) : \A j \in 5..Len(OutRows[i]) :
        OutRows[i][j] <= ScoreThreshold(variant)

\* C8 as stated: when no anchor clears the confidence threshold the
\* postprocessing does not fail, NMS is not invoked at all, no overlay is
\* drawn and the frame is displayed before the next iteration.
C8_NmsSkipped ==
    (Processed /\ NoAnchorClears)
    => /\ pc = "shown"
       /\ nmsCalls = 0
       /\ draws = <<>>
       /\ shown = reads

\* C8, amended: when no anchor clears the confidence threshold the
\* postprocessing does not fail, NMS is invoked once on an empty candidate
\* list and returns no index, no overlay is drawn, the frame is displayed
\* and the loop goes on to its key check.
C8_EmptyFrame ==
    (Processed /\ NoAnchorClears)
    => /\ pc = "shown"
       /\ cands = <<>>
       /\ cv2_boxes = <<>>
       /\ nmsCalls = 1
       /\ indices = <<>>
       /\ dets = <<>>
       /\ draws = <<>>
       /\ shown = reads
       /\ ENABLED WaitKey

\* the second frame of a run shown without overlays after NMS ran on no
\* candidate
C8_Witness ==
    /\ Processed /\ NoAnchorClears /\ Len(raw) > 0
    /\ pc = "shown" /\ nmsCalls = 1 /\ draws = <<>>
    /\ reads = 2 /\ shown = 2

\* a model artifact the script names first is missing
SomeModelMissing ==
    IF variant = "TFlite"
    THEN "best-obj.tflite" \notin files \/ "midas.tflite" \notin files
    ELSE \E a \in Artifacts(variant) : a \notin files

\* the process ended at start-up with a report, before the capture device
\* was opened and before any frame was read
EndedAtStartup ==
    /\ cap = "none"
    /\ reads = 0
    /\ pc \in {"start", "exited", "crashed"}
    /\ (pc # "start" => log # {})

\* C9 as stated: in every script a missing detection or depth model makes
\* the process report the error and end without opening the capture device,
\* entering the frame loop or reading a frame.
C9_MissingModelEnds ==
    SomeModelMissing
    => /\ cap = "none"
       /\ reads = 0
       /\ pc \in {"start", "loaded", "exited", "crashed"}
       /\ (pc # "start" => log # {})

\* no model the script can run with is on disk
NoUsableModels ==
    IF variant = "TFlite"
    THEN \/ {"best-obj.tflite", "best.pt"} \cap files = {}
         \/ "midas.tflite" \notin files
    ELSE \E a \in Artifacts(variant) : a \notin files

\* C9, amended: YOLO.py, box_estimation.py and live.py report and end before
\* the capture device is opened when a model they name is missing;
\* live-detect-TFlite.py reports a missing best-obj.tflite and goes on with
\* best.pt, and ends (reported, capture never opened, no frame read) only
\* when best.pt is missing as well or the depth model is missing.
C9_MissingModel ==
    /\ NoUsableModels => EndedAtStartup
    /\ (variant = "TFlite" /\ ~NoUsableModels /\ "best-obj.tflite" \notin files
          /\ pc # "start")
       => /\ "Error loading TFLite model" \in log
          /\ handles = {"best.pt", "midas.tflite"}
          /\ ~(pc \in {"exited", "crashed"} /\ cap = "none")

\* live.py ended at start-up because only the depth model is missing
C9_Witness ==
    /\ variant = "live" /\ files = {"yolov8n.tflite"}
    /\ pc = "exited" /\ cap = "none" /\ reads = 0 /\ log # {}

\* C10: a frame-read failure ends the loop in the iteration it happens in:
\* that iteration runs no inference, draws and displays nothing, no further
\* read is attempted, and the capture is released before the run ends.
C10_ReadFailure ==
    /\ readFailed
       => /\ pc \in {"after_loop", "done"}
          /\ inferences = reads - 1
          /\ renders = reads - 1
          /\ shown = reads - 1
          /\ raw = <<>> /\ results = <<>> /\ dets = <<>> /\ draws = <<>>
          /\ nmsCalls = 0
    /\ (readFailed /\ pc = "done") => (cap = "released" /\ releases = 1)
    /\ pc = "after_loop" => (cap # "released" /\ releases = 0)

\* the second read of a run failed after a frame was shown, and the run
\* ended with the capture released
C10_Witness ==
    /\ readFailed /\ reads = 2 /\ shown = 1 /\ inferences = 1
    /\ pc = "done" /\ cap = "released" /\ releases = 1

\* C11: the quit key is checked once per iteration, after the frame of the
\* iteration has been processed and displayed (as many waitKey calls as
\* displays, one fewer while a displayed frame waits for its check); once
\* 'q' is seen no further frame is read; a 'q' pressed while a frame is
\* processed leaves that frame processed in full and is taken by the check
\* that follows its display.
C11_QuitCheck ==
    /\ keyChecks = IF pc = "shown" THEN shown - 1 ELSE shown
    /\ quit # "no"
       => /\ pc \in {"after_loop", "done"}
          /\ ~readFailed
          /\ reads = shown /\ reads = keyChecks
    /\ key
       => /\ pc \in {"shown", "crashed"}
          /\ inferences = reads /\ renders = reads
          /\ (pc = "shown" => shown = reads)
    /\ quit = "mid_frame" => (renders = reads /\ shown = reads)

\* a run that ended on a 'q' pressed while its second frame, which has a
\* detection, was processed: the frame was drawn and displayed, the key was
\* checked after each of the two displays, and no third frame was read
C11_Witness ==
    /\ quit = "mid_frame" /\ pc = "done"
    /\ reads = 2 /\ shown = 2 /\ keyChecks = 2
    /\ Len(dets) > 0 /\ Len(draws) > 0

\* the calls that draw a label: its text and the rectangle behind it
LabelCalls == {k \in 1..Len(draws) : draws[k].part \in {"label", "label_bg"}}

\* C12: in every variant, every coordinate handed to a drawing call for the
\* label text or its background rectangle is non-negative, also for a box
\* that starts left of or above the frame or at its top edge.
C12_LabelClamped ==
    \A k \in LabelCalls :
        /\ draws[k].p1[1] >= 0 /\ draws[k].p1[2] >= 0
        /\ draws[k].p2[1] >= 0 /\ draws[k].p2[2] >= 0

\* C13: in live.py and live-detect-TFlite.py the pixel at which the depth
\* map is read for a detection lies in the frame, 0 <= cx <= width - 1 and
\* 0 <= cy <= height - 1, whatever the box, and the read succeeds for
\* every detection of the frame (none ends the drawing loop).
C13_SampleInFrame ==
    (variant \in {"live", "TFlite"} /\ pc \in {"shown", "crashed"} /\ renders > 0)
    => /\ Len(dets) = IF variant = "live" THEN Len(indices) ELSE Len(results)
       /\ \A k \in 1..Len(dets) :
             /\ 0 <= dets[k].sample[1] /\ dets[k].sample[1] <= FrameShape[2] - 1
             /\ 0 <= dets[k].sample[2] /\ dets[k].sample[2] <= FrameShape[1] - 1
             /\ dets[k].read.ok

\* live.py displayed a frame with a detection whose box centre is right of
\* the frame; the depth map was read in the last column
C13_Witness ==
    /\ variant = "live" /\ pc = "shown"
    /\ \E k \in 1..Len(dets) :
          /\ dets[k].center[1] > FrameShape[2] - 1
          /\ dets[k].sample[1] = FrameShape[2] - 1
          /\ dets[k].read.ok

\* the largest raw coordinate of the frame's surviving boxes is at most 2.0
MaxCoordNormalized ==
    /\ Len(cands) > 0
    /\ \A k \in 1..Len(cands) : \A c \in 1..4 : cands[k].box[c] <= NORMALIZED_MAX

\* the frame box of a raw box under the frame's one choice of scale
RescaledBox(box, normalized) ==
    IF normalized
    THEN ToCv2Box(box, FrameShape[2], 1, FrameShape[1], 1)
    ELSE ToCv2Box(box, FrameShape[2], YoloInShape[2], FrameShape[1], YoloInShape[1])

\* C14: in every tensor script the boxes of a frame are all rescaled with
\* one choice: by the frame width and height when the largest raw
\* coordinate of the surviving boxes is at most 2.0, by frame size over
\* model input size otherwise; a frame without surviving box counts as not
\* normalized.
C14_Rescale ==
    Processed
    => /\ Len(cv2_boxes) = Len(cands)
       /\ \A k \in 1..Len(cands) :
              cv2_boxes[k] = RescaledBox(cands[k].box, MaxCoordNormalized)

\* the run has ended
Terminated == pc \in {"done", "exited", "crashed"}

\* C15: in every script and on every path the models are loaded once,
\* before the first frame read, and not again; the capture is not read once
\* released; and a run that created the capture ends with exactly one
\* release of it: after 'q', after a failed read, and when the device does
\* not open.
C15_Resources ==
    /\ loads = Cardinality(handles)
    /\ reads > 0 => (handles # {} /\ loads > 0)
    /\ releases <= 1
    /\ cap = "released" => (pc = "done" /\ releases = 1)
    /\ (Terminated /\ cap # "none") => (cap = "released" /\ releases = 1)

RECURSIVE FileLines(_)
\* the lines of a written text: the pieces between its line ends
FileLines(text) ==
    IF text = <<>> THEN <<>>
    ELSE IF \E i \in 1..Len(text) : text[i] = "\n"
    THEN LET n == CHOOSE i \in 1..Len(text) :
                     text[i] = "\n" /\ \A j \in 1..(i - 1) : text[j] # "\n"
         IN  <<SubSeq(text, 1, n - 1)>> \o
             (IF n = Len(text) THEN << <<>> >> ELSE FileLines(SubSeq(text, n + 1, Len(text))))
    ELSE <<text>>

\* the line has a character that is not space
NonBlank(line) == \E i \in 1..Len(line) : line[i] \notin Whitespace

\* the source lines of a merged label file
SourceLines(f) == source_root[f.split].files[1].lines

\* the class id as it is to be read in the merged files
IdTexts == << <<"0">>, <<"1">>, <<"2">>, <<"3">>, <<"4">>, <<"5">>, <<"6">>, <<"7">>,
              <<"8">>, <<"9">>, <<"1", "0">>, <<"1", "1">> >>

\* C16: every label file of the merged tree holds one line per non-blank
\* source line, in order: first token the id (0..11) of the class directory,
\* the other tokens those of the source line in their order; no blank line
\* is written; data.yaml has nc = 12 and names maps each id 0..11 to the
\* class name that holds it.
C16_Merge ==
    /\ \A f \in target_root :
          f.kind = "labels"
          => LET src == SelectSeq(SourceLines(f), NonBlank)
                 out == FileLines(f.content)
             IN  /\ Len(out) = Len(src)
                 /\ \A k \in 1..Len(out) :
                       /\ NonBlank(out[k])
                       /\ Split(out[k]) =
                             <<IdTexts[source_root.cls + 1]>> \o Tail(Split(src[k]))
    /\ \A y \in data_yaml :
          /\ y.nc = Len(IdTexts)
          /\ DOMAIN y.names = 0..(Len(IdTexts) - 1)
          /\ \A i \in DOMAIN y.names : y.names[i] = class_names[i + 1]

\* the merge of class Truck (id 11) is complete: its train label file had a
\* line with surrounding and doubled spaces and an empty line, and was
\* written as the one line "11 a"; data.yaml is written
C16_Witness ==
    /\ mergePc = "done" /\ data_yaml # {}
    /\ source_root.cls = Len(class_names) - 1
    /\ \E f \in target_root :
          /\ f.kind = "labels" /\ f.split = "train"
          /\ Len(SourceLines(f)) = MaxLines
          /\ \E k \in 1..Len(SourceLines(f)) : ~NonBlank(SourceLines(f)[k])
          /\ f.content = <<"1", "1", " ", "a">>

\* the images of the archive that have a label file of their base name
LabelledImages ==
    {f \in archive.files :
        IsImage(f) /\ \E g \in archive.files : IsLabel(g) /\ g.base = f.base}

\* the number of (image, label) pairs of the archive
NumPairs == archive.bulk + Cardinality(LabelledImages)

\* the image files of a split directory
ImagesIn(split) == {f \in placed[split].files : IsImage(f.src)}
LabelsIn(split) == {f \in placed[split].files : IsLabel(f.src)}

\* C17: for an archive with n pairs, only images with a label file of
\* their base name are placed; min(350, n) images are in train and
\* min(150, max(0, n - 350)) in val; no image is in both; and every placed
\* image has its label file in its split: a label of its base name, and the
\* one of its own sub-directory when that exists, also when images of two
\* sub-directories share a base name.
C17_Split ==
    unzipPc = "done"
    => /\ \A s \in {"train", "val"} : \A f \in ImagesIn(s) : f.src \in LabelledImages
       /\ placed.train.bulk + Cardinality(ImagesIn("train")) = Min2(num_train, NumPairs)
       /\ placed.val.bulk + Cardinality(ImagesIn("val"))
             = Min2(num_val, Max2(0, NumPairs - num_train))
       /\ {f.name : f \in ImagesIn("train")} \cap {f.name : f \in ImagesIn("val")} = {}
       /\ \A s \in {"train", "val"} : \A f \in ImagesIn(s) :
             \E g \in LabelsIn(s) :
                /\ g.src.base = f.src.base
                /\ ([dir |-> f.src.dir, base |-> f.src.base, ext |-> ".txt"]
                       \in archive.files
                    => g.src.dir = f.src.dir)

====
